---- MODULE Spec2Model ----
(***************************************************************************)
(* Client-side bindings of h2o-py:                                         *)
(*   h2o/estimators/psvm.py          H2OSupportVectorMachineEstimator      *)
(*   h2o/model/permutation_varimp.py permutation_varimp,                   *)
(*                                   plot_permutation_var_imp              *)
(* The estimator is a dictionary of staged parameters (_parms) guarded by  *)
(* one type-checking setter per field; the two free functions submit a     *)
(* request to the remote evaluator and draw a bar chart.                   *)
(***************************************************************************)
EXTENDS Integers, Sequences, FiniteSets, TLC

VARIABLES
    phase,      \* "new" | "ready" (constructor returned) | "failed" (constructor raised)
    parms,      \* self._parms: function from a set of names to values
    id,         \* self._id
    call,       \* the last call made on the estimator and its arguments
    err,        \* the exception the last call raised, or NoErr
    requests,   \* the expressions handed to H2OFrame._expr, in order
    fetched,    \* number of h2o.as_list materializations
    pcall,      \* the last permutation_varimp call, its arguments and outcome
    chart,      \* the draw calls the last plot_permutation_var_imp issued
    rcall       \* the last plot_permutation_var_imp call, its arguments and outcome

psVars == <<phase, parms, id, call, err>>
cVars == <<requests, fetched, pcall>>
rVars == <<chart, rcall>>
vars == <<phase, parms, id, call, err, requests, fetched, pcall, chart, rcall>>

(***************************************************************************)
(* Bounds                                                                  *)
(***************************************************************************)
MaxKwargs == 2      \* keyword arguments in one constructor call
MaxStaged == 2      \* setter calls are made on objects holding fewer staged keys
MaxCalls == 3       \* permutation_varimp calls in one behaviour
MaxFeatures == 11   \* feature columns of an importance table

(***************************************************************************)
(* Python values, by type                                                  *)
(***************************************************************************)
Val(k, v) == [kind |-> k, val |-> v]
None == Val("NoneType", "None")
NoErr == [type |-> "none", msg |-> "", name |-> "", value |-> None]
Error(t, m, n, v) == [type |-> t, msg |-> m, name |-> n, value |-> v]

EmptyParms == [n \in {} |-> None]

(***************************************************************************)
(* psvm.py                                                                 *)
(***************************************************************************)
names_list ==
    {"model_id", "training_frame", "validation_frame", "response_column", "ignored_columns",
     "ignore_const_cols", "hyper_param", "kernel_type", "gamma", "rank_ratio", "positive_weight",
     "negative_weight", "disable_training_metrics", "sv_threshold", "fact_threshold",
     "feasible_threshold", "surrogate_gap_threshold", "mu_factor", "max_iterations", "seed"}

\* The fields psvm.py defines a property and a setter for (model_id has none).
SetterNames == names_list \ {"model_id"}

FrameFields == {"training_frame", "validation_frame"}

\* The types each setter hands to assert_is_type after None.
FieldCheck(name) ==
    CASE name = "response_column" -> {"str"}
      [] name = "ignored_columns" -> {"list_of_str"}
      [] name \in {"ignore_const_cols", "disable_training_metrics"} -> {"bool"}
      [] name = "kernel_type" -> {"Enum_gaussian"}
      [] name \in {"max_iterations", "seed"} -> {"int"}
      [] OTHER -> {"int", "float"}     \* numeric

\* Whether value v is of type t.
IsType(v, t) ==
    CASE t = "Enum_gaussian" -> v = Val("str", "gaussian")
      [] OTHER -> v.kind = t

\* assert_is_type(var, None, *types): passes for None and for a value of a listed type.
assert_is_type(v, types) == v = None \/ \E t \in types : IsType(v, t)

\* H2OFrame._validate(param, name): None and a frame pass unchanged, a compatible
\* local table is converted into a frame, anything else is a value error.
H2OFrame_validate(v, name) ==
    CASE v = None -> [ok |-> TRUE, val |-> None]
      [] v.kind = "H2OFrame" -> [ok |-> TRUE, val |-> v]
      [] v.kind = "DataFrame" -> [ok |-> TRUE, val |-> Val("H2OFrame", v.val)]
      [] OTHER -> [ok |-> FALSE, val |-> v]

Put(p, name, v) == (name :> v) @@ p

\* self._parms.get(name)
Get(p, name) == IF name \in DOMAIN p THEN p[name] ELSE None

\* Setter that treats None as "leave the field alone".
SetterSkipNone(p, name, v) ==
    IF v = None THEN [parms |-> p, err |-> NoErr]
    ELSE IF name \in FrameFields
    THEN LET r == H2OFrame_validate(v, name)
         IN  IF r.ok
             THEN [parms |-> Put(p, name, r.val), err |-> NoErr]
             ELSE [parms |-> p, err |-> Error("H2OValueError", "not an H2OFrame", name, v)]
    ELSE IF assert_is_type(v, FieldCheck(name))
         THEN [parms |-> Put(p, name, v), err |-> NoErr]
         ELSE [parms |-> p, err |-> Error("H2OTypeError", "wrong type", name, v)]

\* The setter of field `name` applied to the staged mapping p: [parms, err].
Setter(p, name, v) ==
    IF name \in FrameFields
    THEN LET r == H2OFrame_validate(v, name)
         IN  IF r.ok
             THEN [parms |-> Put(p, name, r.val), err |-> NoErr]
             ELSE [parms |-> p, err |-> Error("H2OValueError", "not an H2OFrame", name, v)]
    ELSE IF assert_is_type(v, FieldCheck(name))
         THEN [parms |-> Put(p, name, v), err |-> NoErr]
         ELSE [parms |-> p, err |-> Error("H2OTypeError", "wrong type", name, v)]

Pair(n, v) == [name |-> n, value |-> v]

KwNames(kw) == {kw[i].name : i \in DOMAIN kw}

IndexOf(kw, n) == CHOOSE i \in DOMAIN kw : kw[i].name = n

Without(kw, i) == SubSeq(kw, 1, i - 1) \o SubSeq(kw, i + 1, Len(kw))

\* No alias rewriting.
AliasRewriteNone(kw) == kw

\* if "Lambda" in kwargs: kwargs["lambda_"] = kwargs.pop("Lambda")
\* (pop removes the key; the assignment overwrites an existing lambda_ in place
\* and appends a new one at the end of the dictionary's iteration order).
AliasRewrite(kw) ==
    IF "Lambda" \notin KwNames(kw) THEN kw
    ELSE LET i == IndexOf(kw, "Lambda")
             v == kw[i].value
             rest == Without(kw, i)
         IN  IF "lambda_" \in KwNames(rest)
             THEN [rest EXCEPT ![IndexOf(rest, "lambda_")].value = v]
             ELSE Append(rest, Pair("lambda_", v))

\* Loop body that stages an unrecognized name instead of raising.
ApplyPairLenient(st, p) ==
    IF p.name = "model_id"
    THEN [parms |-> Put(st.parms, "model_id", p.value), id |-> p.value, err |-> NoErr]
    ELSE IF p.name \in names_list
         THEN LET r == Setter(st.parms, p.name, p.value)
              IN  [parms |-> r.parms, id |-> st.id, err |-> r.err]
         ELSE [parms |-> Put(st.parms, p.name, p.value), id |-> st.id, err |-> NoErr]

\* One iteration of the constructor's loop on the object st = [parms, id, err].
ApplyPair(st, p) ==
    IF p.name = "model_id"
    THEN [parms |-> Put(st.parms, "model_id", p.value), id |-> p.value, err |-> NoErr]
    ELSE IF p.name \in names_list
         THEN LET r == Setter(st.parms, p.name, p.value)
              IN  [parms |-> r.parms, id |-> st.id, err |-> r.err]
         ELSE [parms |-> st.parms, id |-> st.id,
               err |-> Error("H2OValueError", "Unknown parameter", p.name, p.value)]

RECURSIVE ConstructLoop(_, _, _)
\* for pname, pvalue in kwargs.items(): ... ; an exception ends the loop.
ConstructLoop(st, kw, i) ==
    IF i > Len(kw) THEN st
    ELSE LET nx == ApplyPair(st, kw[i])
         IN  IF nx.err # NoErr THEN nx ELSE ConstructLoop(nx, kw, i + 1)

\* Constructor that rejects a bad batch as a whole.
ConstructAtomic(kw) ==
    LET r == ConstructLoop([parms |-> EmptyParms, id |-> None, err |-> NoErr],
                           AliasRewrite(kw), 1)
    IN  IF r.err # NoErr THEN [r EXCEPT !.parms = EmptyParms, !.id = None] ELSE r

\* H2OSupportVectorMachineEstimator(**kwargs): the object the constructor leaves.
Construct(kw) ==
    ConstructLoop([parms |-> EmptyParms, id |-> None, err |-> NoErr], AliasRewrite(kw), 1)

(***************************************************************************)
(* Inputs of the estimator                                                 *)
(***************************************************************************)
TestValues(name) ==
    CASE name = "model_id" -> {Val("str", "job1"), Val("int", "5")}
      [] name \in FrameFields ->
            {None, Val("H2OFrame", "fr1"), Val("DataFrame", "df1"), Val("int", "5")}
      [] name = "response_column" -> {None, Val("str", "y"), Val("int", "5")}
      [] name = "ignored_columns" ->
            {None, Val("list_of_str", "[a,b]"), Val("list_of_int", "[1,2]")}
      [] name \in {"ignore_const_cols", "disable_training_metrics"} ->
            {None, Val("bool", "True"), Val("str", "yes")}
      [] name = "kernel_type" -> {None, Val("str", "gaussian"), Val("str", "linear")}
      [] name \in {"max_iterations", "seed"} -> {None, Val("int", "5"), Val("float", "0.5")}
      [] name \in names_list -> {None, Val("int", "5"), Val("float", "0.5"), Val("str", "y")}
      [] OTHER -> {Val("int", "5"), Val("str", "y")}

KwargNames == names_list \cup {"Lambda", "lambda_", "foo"}

Pairs == UNION {{Pair(n, v) : v \in TestValues(n)} : n \in KwargNames}

RECURSIVE KwargsOfLen(_)
KwargsOfLen(n) ==
    IF n = 0 THEN {<<>>}
    ELSE {Append(s, p) : <<s, p>> \in
            {sp \in KwargsOfLen(n - 1) \X Pairs : sp[2].name \notin KwNames(sp[1])}}

NoCall == [op |-> "none", kwargs |-> <<>>, name |-> "", value |-> None]

(***************************************************************************)
(* Actions of the estimator                                                *)
(***************************************************************************)
InitPS ==
    /\ phase = "new"
    /\ parms = EmptyParms
    /\ id = None
    /\ call = NoCall
    /\ err = NoErr

DoConstruct ==
    /\ phase = "new"
    /\ \E n \in 0..MaxKwargs : \E kw \in KwargsOfLen(n) :
         LET st == Construct(kw)
         IN  /\ parms' = st.parms
             /\ id' = st.id
             /\ err' = st.err
             /\ phase' = IF st.err = NoErr THEN "ready" ELSE "failed"
             /\ call' = [op |-> "construct", kwargs |-> kw, name |-> "", value |-> None]
    /\ UNCHANGED <<cVars, rVars>>

DoSet ==
    /\ phase = "ready"
    /\ Cardinality(DOMAIN parms) < MaxStaged
    /\ \E name \in SetterNames : \E v \in TestValues(name) :
         LET r == Setter(parms, name, v)
         IN  /\ parms' = r.parms
             /\ err' = r.err
             /\ call' = [op |-> "set", kwargs |-> <<>>, name |-> name, value |-> v]
    /\ UNCHANGED <<phase, id, cVars, rVars>>

(***************************************************************************)
(* permutation_varimp.py: permutation_varimp                               *)
(***************************************************************************)
\* ExprNode("PermutationVarImp", model, frame, metric)
ExprNode(model, frame, metric) ==
    [op |-> "PermutationVarImp", model |-> model, frame |-> frame, metric |-> metric]

\* type(frame) is not H2OFrame
NotH2OFrame(frame) == frame.kind # "H2OFrame"

\* The request built before the frame is checked.
permutation_varimp_late(st, model, frame, use_pandas, metric, pandas_ok) ==
    LET sent == Append(st.requests, ExprNode(model, frame, metric))
    IN  IF NotH2OFrame(frame)
        THEN [requests |-> sent, fetched |-> st.fetched, err |-> "ValueError", ret |-> "none"]
        ELSE IF use_pandas /\ pandas_ok
             THEN [requests |-> sent, fetched |-> st.fetched + 1,
                   err |-> "none", ret |-> "pandas.DataFrame"]
             ELSE [requests |-> sent, fetched |-> st.fetched,
                   err |-> "none", ret |-> "H2OFrame"]

\* A request equal to the previous one is not submitted again.
permutation_varimp_cached(st, model, frame, use_pandas, metric, pandas_ok) ==
    IF NotH2OFrame(frame)
    THEN [requests |-> st.requests, fetched |-> st.fetched,
          err |-> "ValueError", ret |-> "none"]
    ELSE LET e == ExprNode(model, frame, metric)
             n == Len(st.requests)
             sent == IF n > 0 /\ st.requests[n] = e THEN st.requests
                     ELSE Append(st.requests, e)
         IN  IF use_pandas /\ pandas_ok
             THEN [requests |-> sent, fetched |-> st.fetched + 1,
                   err |-> "none", ret |-> "pandas.DataFrame"]
             ELSE [requests |-> sent, fetched |-> st.fetched,
                   err |-> "none", ret |-> "H2OFrame"]

\* permutation_varimp(model, frame, use_pandas, metric) run in the environment
\* st = [requests, fetched]; pandas_ok is what can_use_pandas() answers.
permutation_varimp(st, model, frame, use_pandas, metric, pandas_ok) ==
    IF NotH2OFrame(frame)
    THEN [requests |-> st.requests, fetched |-> st.fetched,
          err |-> "ValueError", ret |-> "none"]
    ELSE LET sent == Append(st.requests, ExprNode(model, frame, metric))
         IN  IF use_pandas /\ pandas_ok
             THEN [requests |-> sent, fetched |-> st.fetched + 1,
                   err |-> "none", ret |-> "pandas.DataFrame"]
             ELSE [requests |-> sent, fetched |-> st.fetched,
                   err |-> "none", ret |-> "H2OFrame"]

Models == {"m1", "m2"}
Metrics == {"mse", "auc"}
Frames == {Val("H2OFrame", "fr1"), Val("DataFrame", "df1"), Val("str", "fr1"), None}

NoPCall ==
    [op |-> "none", model |-> "", frame |-> None, use_pandas |-> FALSE, metric |-> "",
     pandas_ok |-> FALSE, err |-> "none", ret |-> "none", ncalls |-> 0, nframes |-> 0,
     sent_before |-> 0, fetched_before |-> 0]

DoCompute ==
    /\ pcall.ncalls < MaxCalls
    /\ \E model \in Models, frame \in Frames, use_pandas \in BOOLEAN,
          metric \in Metrics, pandas_ok \in BOOLEAN :
         LET r == permutation_varimp([requests |-> requests, fetched |-> fetched],
                                     model, frame, use_pandas, metric, pandas_ok)
         IN  /\ requests' = r.requests
             /\ fetched' = r.fetched
             /\ pcall' = [op |-> "compute", model |-> model, frame |-> frame,
                          use_pandas |-> use_pandas, metric |-> metric,
                          pandas_ok |-> pandas_ok, err |-> r.err, ret |-> r.ret,
                          ncalls |-> pcall.ncalls + 1,
                          nframes |-> pcall.nframes + (IF frame.kind = "H2OFrame" THEN 1 ELSE 0),
                          sent_before |-> Len(requests), fetched_before |-> fetched]
    /\ UNCHANGED <<psVars, rVars>>

(***************************************************************************)
(* permutation_varimp.py: plot_permutation_var_imp                         *)
(***************************************************************************)
TopN == 10      \* min(len(importance_val), 10)
PlotRow == 2    \* importance.loc[2]

Label == <<"importance", 0>>
Feature(i) == <<"f", i>>

Cell(k, n) == [kind |-> k, num |-> n]

RECURSIVE SelectSeq2(_, _)
\* the indices i of s, in order, for which keep[i] holds
SelectSeq2(s, keep) ==
    IF s = <<>> THEN <<>>
    ELSE LET n == Len(s)
             front == SelectSeq2(SubSeq(s, 1, n - 1), keep)
         IN  IF keep[n] THEN Append(front, s[n]) ELSE front

\* lines 50-54: the row-2 cell of every column not named "importance", in column order
importance_val(imp) ==
    SelectSeq2(imp.row, [i \in 1..Len(imp.columns) |-> imp.columns[i] # Label])

\* importance.loc[2] raises KeyError when the table has no row labelled 2; the loop
\* evaluates it once per column that is not skipped.
LocRaises(imp) == imp.nrows <= PlotRow /\ importance_val(imp) # <<>>

\* range(n)[::-1]
pos(n) == [i \in 1..n |-> n - i]

\* No cap on the number of bars.
num_of_features_all(vals) == Len(vals)

\* min(len(importance_val), 10)
num_of_features(vals) == IF Len(vals) < TopN THEN Len(vals) ELSE TopN

\* s[a:b] of Python, a and b non-negative
Slice(s, a, b) ==
    LET e == IF b < Len(s) THEN b ELSE Len(s)
    IN  IF a >= e THEN <<>> ELSE SubSeq(s, a + 1, e)

SeqMin(s) == CHOOSE x \in {s[i] : i \in DOMAIN s} : \A i \in DOMAIN s : x <= s[i]
SeqMax(s) == CHOOSE x \in {s[i] : i \in DOMAIN s} : \A i \in DOMAIN s : x >= s[i]

NoChart ==
    [calls |-> <<>>, barh_pos |-> <<>>, barh_val |-> <<>>, ytick_pos |-> <<>>,
     ytick_labels |-> <<>>, ylim |-> <<>>, title |-> <<>>]

\* lines 63-80: the draw calls issued once a pyplot module was obtained
Draw(imp, algo_name, metric, server) ==
    LET vals == importance_val(imp)
        p == pos(Len(vals))
        num == num_of_features(vals)
        bars == [NoChart EXCEPT !.calls = <<"subplots", "barh", "yticks">>,
                                !.barh_pos = Slice(p, 0, num),
                                !.barh_val = Slice(vals, 0, num),
                                !.ytick_pos = Slice(p, 0, num),
                                !.ytick_labels = Slice(imp.columns, 1, num + 1)]
    IN  IF Slice(p, 0, num) = <<>>
        THEN [chart |-> bars, err |-> "ValueError"]     \* min() of an empty sequence
        ELSE [chart |->
                [bars EXCEPT
                   !.calls = bars.calls \o <<"ylim", "title">>
                             \o (IF server THEN <<>> ELSE <<"show">>),
                   !.ylim = <<SeqMin(Slice(p, 0, num)) - 1, SeqMax(Slice(p, 0, num)) + 1>>,
                   !.title = <<"Permutation Variable Importance: ", algo_name,
                               " (", metric, ")">>],
              err |-> "none"]

\* Drawing without asking whether a pyplot module was obtained.
plot_permutation_var_imp_nocheck(imp, algo_name, metric, server, plt) ==
    IF LocRaises(imp) THEN [chart |-> NoChart, err |-> "KeyError"]
    ELSE Draw(imp, algo_name, metric, server)

\* plot_permutation_var_imp(importance, algo_name, metric, server); plt is what
\* _get_matplotlib_pyplot(server) returns (FALSE: no module).
plot_permutation_var_imp(imp, algo_name, metric, server, plt) ==
    IF LocRaises(imp) THEN [chart |-> NoChart, err |-> "KeyError"]
    ELSE IF ~plt THEN [chart |-> NoChart, err |-> "none"]
    ELSE Draw(imp, algo_name, metric, server)

(***************************************************************************)
(* Importance tables                                                       *)
(***************************************************************************)
\* n feature columns named f1..fn (or fn..f1 when rev), the label column at
\* position labelAt (0: none), row 2 holding 9 under the peak-th feature and
\* smaller values elsewhere, nrows rows labelled 0..nrows-1.
Table(n, labelAt, peak, rev, nrows) ==
    LET feat(j) == IF rev THEN Feature(n + 1 - j) ELSE Feature(j)
        fval(j) == Cell("num", IF j = peak THEN 9 ELSE 1 + (j % 3))
        width == IF labelAt = 0 THEN n ELSE n + 1
        fidx(i) == IF labelAt # 0 /\ i > labelAt THEN i - 1 ELSE i
    IN  [columns |-> [i \in 1..width |-> IF i = labelAt THEN Label ELSE feat(fidx(i))],
         row |-> [i \in 1..width |->
                    IF i = labelAt THEN Cell("str", 0) ELSE fval(fidx(i))],
         nrows |-> nrows]

Tables ==
    {Table(c[1], c[2], peak, rev, nrows) :
        c \in {d \in (0..MaxFeatures) \X (0..2) : d[2] <= d[1] + 1},
        peak \in 1..MaxFeatures, rev \in BOOLEAN, nrows \in {PlotRow, PlotRow + 1}}

NoRCall ==
    [op |-> "none", importance |-> Table(0, 0, 1, FALSE, 0), algo_name |-> "",
     metric |-> "", server |-> FALSE, plt |-> FALSE, err |-> "none"]

\* The arguments of a plot_permutation_var_imp call about to be made, and the
\* environment (plt) it is made in.
RenderInputs ==
    {[op |-> "pending", importance |-> imp, algo_name |-> "psvm", metric |-> metric,
      server |-> server, plt |-> plt, err |-> "none"] :
        imp \in Tables, metric \in Metrics, server \in BOOLEAN, plt \in BOOLEAN}

DoRender ==
    /\ rcall.op = "pending"
    /\ LET r == plot_permutation_var_imp(rcall.importance, rcall.algo_name, rcall.metric,
                                         rcall.server, rcall.plt)
       IN  /\ chart' = r.chart
           /\ rcall' = [rcall EXCEPT !.op = "render", !.err = r.err]
    /\ UNCHANGED <<psVars, cVars>>

InitReq ==
    /\ requests = <<>>
    /\ fetched = 0
    /\ pcall = NoPCall
    /\ chart = NoChart
    /\ rcall = NoRCall

Init == InitPS /\ InitReq

Next == DoConstruct \/ DoSet

Spec == Init /\ [][Next]_vars

SpecCompute == Init /\ [][DoCompute]_vars

InitRender ==
    /\ InitPS
    /\ requests = <<>>
    /\ fetched = 0
    /\ pcall = NoPCall
    /\ chart = NoChart
    /\ rcall \in RenderInputs

SpecRender == InitRender /\ [][DoRender]_vars

(***************************************************************************)
(* Properties                                                              *)
(***************************************************************************)
\* The type each field is documented to hold.
DeclaredType(name, v) ==
    CASE name = "model_id" -> v.kind = "str"
      [] name \in FrameFields -> v.kind = "H2OFrame"
      [] OTHER -> \E t \in FieldCheck(name) : IsType(v, t)

Constructed == call.op = "construct"
WasSet == call.op = "set"

\* C1: every key of the staged mapping is a recognized name and every value that is
\* not None has the declared type of its field, model_id included.
C1_StagedValuesTyped ==
    \A k \in DOMAIN parms :
        k \in names_list /\ (parms[k] # None => DeclaredType(k, parms[k]))

OneUnknown ==
    Constructed /\ Len(call.kwargs) = 1 /\ call.kwargs[1].name \notin names_list

\* C2: a constructor call with one unrecognized name raises the unknown-parameter
\* error and leaves nothing staged and no identity.
C2_UnknownRejected ==
    OneUnknown =>
        /\ err = Error("H2OValueError", "Unknown parameter",
                       IF call.kwargs[1].name = "Lambda" THEN "lambda_"
                       ELSE call.kwargs[1].name,
                       call.kwargs[1].value)
        /\ parms = EmptyParms
        /\ id = None
        /\ phase = "failed"

C2_Witness == OneUnknown /\ call.kwargs[1].name = "foo" /\ call.kwargs[1].value = Val("int", "5")

\* C3: a setter call with None or a value of the field's declared type succeeds and
\* the getter then returns that value, whatever was staged before; a setter call that
\* raises leaves the getter's answer as it was.
C3_SetThenGet ==
    [][call'.op = "set" =>
         /\ (call'.value = None \/ DeclaredType(call'.name, call'.value))
               => (err' = NoErr /\ Get(parms', call'.name) = call'.value)
         /\ err' # NoErr => Get(parms', call'.name) = Get(parms, call'.name)]_vars

\* a value staged by the constructor has been overwritten by the setter
C3_Witness ==
    /\ WasSet /\ err = NoErr /\ id # None
    /\ call.name = "training_frame" /\ call.value = Val("H2OFrame", "fr1")
    /\ Get(parms, "training_frame") = call.value

BadFrameCall == pcall.op = "compute" /\ NotH2OFrame(pcall.frame)

\* C4: a permutation_varimp call whose frame is not an H2OFrame raises ValueError
\* having sent no request and fetched nothing.
C4_RejectedBeforeRemote ==
    BadFrameCall =>
        /\ pcall.err = "ValueError"
        /\ Len(requests) = pcall.sent_before
        /\ fetched = pcall.fetched_before

C4_Witness ==
    /\ BadFrameCall /\ pcall.use_pandas /\ pcall.metric = "mse"
    /\ pcall.frame = Val("DataFrame", "df1") /\ Len(requests) = 0 /\ fetched = 0

GoodFrameCall == pcall.op = "compute" /\ ~NotH2OFrame(pcall.frame)

\* C5: every permutation_varimp call given an H2OFrame sends exactly one request,
\* the one for its arguments, so the requests sent number the calls given an H2OFrame.
C5_OneSubmissionPerCall ==
    /\ Len(requests) = pcall.nframes
    /\ GoodFrameCall =>
         /\ pcall.err = "none"
         /\ Len(requests) = pcall.sent_before + 1
         /\ requests[Len(requests)] = ExprNode(pcall.model, pcall.frame, pcall.metric)

\* the same request sent twice in a row
C5_Witness ==
    /\ GoodFrameCall /\ Len(requests) = 2 /\ requests[1] = requests[2]
    /\ pcall.nframes = 2

Rendered == rcall.op = "render"

\* C6 as stated: without a pyplot module the call returns normally with no draw
\* call, whatever the importance table.
C6_NoBackendNoError ==
    (Rendered /\ ~rcall.plt) => (rcall.err = "none" /\ chart.calls = <<>>)

\* C6 amended: without a pyplot module the call returns normally with no draw call
\* when the importance table has a row labelled 2.
C6_NoBackendNoErrorWithRow ==
    (Rendered /\ ~rcall.plt /\ rcall.importance.nrows > PlotRow)
        => (rcall.err = "none" /\ chart = NoChart)

C6_Witness ==
    /\ Rendered /\ ~rcall.plt /\ rcall.importance.nrows > PlotRow
    /\ Len(rcall.importance.columns) = 4 /\ rcall.err = "none"

\* the table has the label column first, n feature columns after it and a row 2
LabelFirst(imp) ==
    /\ Len(imp.columns) >= 1
    /\ imp.columns[1] = Label
    /\ imp.nrows > PlotRow

NumFeatures(imp) == Len(imp.columns) - 1

Shown(imp) == IF NumFeatures(imp) < TopN THEN NumFeatures(imp) ELSE TopN

\* C7: with a pyplot module and the label column first, the bars are the row-2 values
\* of the first min(n, 10) feature columns in column order, and the i-th tick is
\* placed on the i-th bar and labelled with the name of the i-th bar's column.
C7_FirstTenInOrder ==
    (Rendered /\ rcall.plt /\ LabelFirst(rcall.importance)) =>
        LET imp == rcall.importance
            k == Shown(imp)
        IN  /\ Len(chart.barh_val) = k
            /\ Len(chart.barh_pos) = k
            /\ Len(chart.ytick_labels) = k
            /\ chart.ytick_pos = chart.barh_pos
            /\ \A i \in 1..k :
                 /\ chart.barh_val[i] = imp.row[i + 1]
                 /\ chart.ytick_labels[i] = imp.columns[i + 1]

\* twelve columns, ten bars
C7_Witness ==
    /\ Rendered /\ rcall.plt /\ LabelFirst(rcall.importance)
    /\ NumFeatures(rcall.importance) = TopN + 1
    /\ Len(chart.barh_val) = TopN
    /\ rcall.err = "none"

\* C8: in the chart drawn, a bar of the largest value drawn has the highest position.
C8_LargestOnTop ==
    (Rendered /\ rcall.plt /\ rcall.err = "none" /\ LabelFirst(rcall.importance)) =>
        \E i \in DOMAIN chart.barh_val :
            /\ \A j \in DOMAIN chart.barh_val : chart.barh_val[j].num <= chart.barh_val[i].num
            /\ \A j \in DOMAIN chart.barh_pos : chart.barh_pos[j] <= chart.barh_pos[i]

OnlyLambda == Constructed /\ Len(call.kwargs) = 1 /\ call.kwargs[1].name = "Lambda"

\* C9: the constructor given only Lambda = v ends as the constructor given only
\* lambda_ = v: the same exception, the same staged mapping, the same identity.
C9_AliasTransparent ==
    OnlyLambda =>
        [parms |-> parms, id |-> id, err |-> err]
            = Construct(<<Pair("lambda_", call.kwargs[1].value)>>)

C9_Witness == OnlyLambda /\ call.kwargs[1].value = Val("int", "5") /\ phase = "failed"

\* what a pair leaves staged when it is accepted
Stored(p) ==
    IF p.name \in FrameFields /\ p.value.kind = "DataFrame"
    THEN Val("H2OFrame", p.value.val) ELSE p.value

\* the pair is one the constructor raises on
PairFails(p) ==
    \/ p.name \notin names_list
    \/ /\ p.name \in FrameFields
       /\ p.value # None /\ p.value.kind \notin {"H2OFrame", "DataFrame"}
    \/ /\ p.name \notin FrameFields /\ p.name # "model_id"
       /\ p.value # None /\ ~DeclaredType(p.name, p.value)

\* the order the constructor iterates the pairs in: Lambda leaves its place and
\* lambda_ takes the value, at its own place or at the end
IterationOrder(kw) ==
    IF \E i \in DOMAIN kw : kw[i].name = "Lambda"
    THEN LET i == CHOOSE i \in DOMAIN kw : kw[i].name = "Lambda"
             rest == [j \in 1..(Len(kw) - 1) |-> IF j < i THEN kw[j] ELSE kw[j + 1]]
         IN  IF \E j \in DOMAIN rest : rest[j].name = "lambda_"
             THEN [j \in DOMAIN rest |->
                     IF rest[j].name = "lambda_" THEN Pair("lambda_", kw[i].value)
                     ELSE rest[j]]
             ELSE rest \o <<Pair("lambda_", kw[i].value)>>
    ELSE kw

ConstructStopsAtFirstFailure ==
    Constructed =>
        LET kw == IterationOrder(call.kwargs)
            bad == {k \in DOMAIN kw : PairFails(kw[k])}
            stop == IF bad = {} THEN Len(kw) + 1
                    ELSE CHOOSE k \in bad : \A m \in bad : k <= m
        IN  /\ (bad = {}) = (err = NoErr)
            /\ bad # {} => (err.name = kw[stop].name /\ err.value = kw[stop].value)
            /\ DOMAIN parms = {kw[i].name : i \in 1..(stop - 1)}
            /\ \A i \in 1..(stop - 1) : parms[kw[i].name] = Stored(kw[i])

FailedSetKeepsMapping ==
    (call'.op = "set" /\ err' # NoErr) => (parms' = parms /\ id' = id)

\* C10: the constructor applies the pairs one at a time in iteration order and stops
\* at the first that fails, with exactly the earlier pairs staged; a setter call that
\* raises leaves the staged mapping as it was.
C10_FailFastPerPair ==
    /\ []ConstructStopsAtFirstFailure
    /\ [][FailedSetKeepsMapping]_vars

\* the second of two pairs fails and the first is staged
C10_Witness ==
    /\ Constructed /\ Len(call.kwargs) = 2 /\ err # NoErr
    /\ err.name = call.kwargs[2].name
    /\ DOMAIN parms = {call.kwargs[1].name}

====
